---- MODULE Spec2Model ----
(***************************************************************************)
(* A model of tinybit's event multiplexer (src/events/term.rs) and of its  *)
(* renderer and stdout render target (src/render.rs).                       *)
(*                                                                          *)
(* The three parts share no state.  Each has a specification of its own     *)
(* (SpecEvents, SpecRender, SpecStdout); Spec is their interleaving.        *)
(***************************************************************************)
EXTENDS Integers, Sequences, FiniteSets, TLC

(***************************************************************************)
(* Bounds of the model.                                                     *)
(***************************************************************************)
\* how many Ticks the frame thread sends in a behaviour
MaxTicks == 3
\* how many times the input thread's read() returns in a behaviour
MaxReads == 2
\* how many draw_pixel calls a behaviour makes
MaxDraws == 3
\* how many Renderer::render calls a behaviour makes
MaxRenders == 2
\* how many StdoutTarget::render calls a behaviour makes
MaxStdoutRenders == 2
\* how many pixels one StdoutTarget::render call is given at most
MaxBatch == 2

(***************************************************************************)
(* Values.                                                                  *)
(***************************************************************************)
\* the fps arguments tried: 0, the doc example's 20, and one above 1000
FpsValues == {0, 20, 1001}
\* keyboard events (crossterm KeyEvent values)
KeyEvents == {"a", "b"}
\* what crossterm's read() can return: Err, or Ok of a key, mouse or resize event
ReadResults ==
    {[ok |-> FALSE, kind |-> "Err", key |-> "-"],
     [ok |-> TRUE, kind |-> "Mouse", key |-> "-"],
     [ok |-> TRUE, kind |-> "Resize", key |-> "-"]}
    \cup {[ok |-> TRUE, kind |-> "Key", key |-> k] : k \in KeyEvents}

\* the test's camera() and viewport(), and a second placement of each
CameraArgs == {[x |-> 30, y |-> 30, w |-> 6, h |-> 6],
               [x |-> 0, y |-> 0, w |-> 6, h |-> 6]}
ViewportArgs == {[x |-> 2, y |-> 2, w |-> 6, h |-> 6],
                 [x |-> 0, y |-> 0, w |-> 6, h |-> 6]}
\* glyphs drawn
Glyphs == {"A", "B"}
\* world positions drawn, relative to the camera's minimum corner: the
\* corner itself, a position inside the box, one left of it, one beyond it
DrawOffsets == {<<0, 0>>, <<1, 2>>, <<-1, 0>>, <<7, 7>>}

\* pixels handed to StdoutTarget::render
StdoutPixels == {[glyph |-> "A", pos |-> [x |-> 2, y |-> 2]],
                 [glyph |-> "B", pos |-> [x |-> 3, y |-> 4]]}
\* the pixel sequences of at most n pixels
RECURSIVE Batches(_)
Batches(n) ==
    IF n = 0 THEN {<<>>}
    ELSE Batches(n - 1)
         \cup {Append(b, px) : b \in {c \in Batches(n - 1) : Len(c) = n - 1},
                               px \in StdoutPixels}

\* enum Event { Tick, Key(KeyEvent) }
Tick == [type |-> "Tick", key |-> "-"]
Key(k) == [type |-> "Key", key |-> k]

VARIABLES
    \* ---- event multiplexer (events/term.rs) ----
    evPc,        \* "idle" before events(fps) is called, "running" after
    fps,         \* the argument of events(fps)
    chan,        \* the mpsc channel's queue
    rxAlive,     \* the Events value (the receiver) has not been dropped
    inputPc,     \* input thread: "none" | "read" | "send"
    pendingKey,  \* the k bound by `if let CrossTermEvent::Key(k)`
    framePc,     \* frame thread: "none" | "send" | "sleep" | "panicked"
    lastNext,    \* result of the last Events::next(): kind "-" (none yet), "Some", "None"
    lastSleepMs, \* the duration of the frame thread's last sleep, -1 before
    \* history of the multiplexer (not program state)
    sent,        \* events the channel accepted (send returned Ok), in order
    received,    \* events next() returned, in order
    readLog,     \* what read() returned, in order
    keySends,    \* keys the input thread passed to send, in order
    tickSends,   \* number of tx.send(Event::Tick) calls
    frameLog,    \* the frame thread's sends and sleeps, in order
    \* ---- camera, viewport, renderer with a DummyTarget (render.rs) ----
    camera,      \* [made, x, y, w, h]: the world bounding box
    view,        \* [made, x, y, w, h, pixels]: screen box and pending pixels
    renderer,    \* [made, pixels]: the Renderer's DummyTarget
    \* history of the rendering (not program state)
    calls,       \* draw_pixel calls since the last pixels(): [glyph, w, off]
    callLog,     \* per Renderer::render call, the draw_pixel calls it drained
    frames,      \* per RenderTarget::render call, the pixels it was given
    renderCalls, \* number of Renderer::render calls
    \* ---- StdoutTarget and the terminal (render.rs) ----
    stPc,        \* "none" | "enable" | "mouse" | "hide" | "clear" (inside
                 \* StdoutTarget::new) | "failed" (new returned Err) | "live"
                 \* | "move" | "print" | "flush" (inside render)
                 \* | "panicking" (an expect failed) | "dropped"
    stPixels,    \* the pixels the running render call has not emitted yet
    termRaw,     \* the terminal is in raw mode
    termOut,     \* what has been written to stdout, in order
    \* history of the terminal handling (not program state)
    rawAcquired, \* enable_raw_mode has succeeded
    disableCalls,    \* number of disable_raw_mode calls
    stRenders,   \* number of StdoutTarget::render calls
    stCall       \* the current or last render call: the pixels it was given
                 \* (batch), Len(termOut) when it began (mark), the step
                 \* that failed in it (failed: "none" | "move" | "print" |
                 \* "flush") and its number of flush calls (flushes)

evVars == <<evPc, fps, chan, rxAlive, inputPc, pendingKey, framePc, lastNext,
            lastSleepMs, sent, received, readLog, keySends, tickSends,
            frameLog>>

rnVars == <<camera, view, renderer, calls, callLog, frames, renderCalls>>

stVars == <<stPc, stPixels, termRaw, termOut, rawAcquired, disableCalls,
            stRenders, stCall>>

vars == <<evVars, rnVars, stVars>>

(***************************************************************************)
(* std::sync::mpsc as the code uses it.                                     *)
(***************************************************************************)
\* Sender::send on an unbounded channel: never blocks; Err when the
\* receiver is gone (the value is then dropped)
ChanSendCoalesce(c, alive, e) ==
    IF alive /\ ~(c # <<>> /\ c[Len(c)] = e)
    THEN [chan |-> Append(c, e), ok |-> TRUE]
    ELSE [chan |-> c, ok |-> alive]
ChanSend(c, alive, e) ==
    IF alive THEN [chan |-> Append(c, e), ok |-> TRUE]
    ELSE [chan |-> c, ok |-> FALSE]

\* the threads that still own a Sender
Senders ==
    (IF inputPc \in {"read", "send"} THEN {"input"} ELSE {})
    \cup (IF framePc \in {"send", "sleep"} THEN {"frame"} ELSE {})

\* self.rx.recv().ok(): the oldest queued event; with an empty queue None
\* when every Sender is dropped, otherwise the call blocks
RecvTry(c, senders) ==
    IF c # <<>> THEN [kind |-> "Some", ev |-> Head(c), chan |-> Tail(c)]
    ELSE [kind |-> "None", ev |-> Tick, chan |-> c]
RecvLifo(c, senders) ==
    IF c # <<>>
    THEN [kind |-> "Some", ev |-> c[Len(c)], chan |-> SubSeq(c, 1, Len(c) - 1)]
    ELSE IF senders = {} THEN [kind |-> "None", ev |-> Tick, chan |-> c]
    ELSE [kind |-> "Block", ev |-> Tick, chan |-> c]
Recv(c, senders) ==
    IF c # <<>> THEN [kind |-> "Some", ev |-> Head(c), chan |-> Tail(c)]
    ELSE IF senders = {} THEN [kind |-> "None", ev |-> Tick, chan |-> c]
    ELSE [kind |-> "Block", ev |-> Tick, chan |-> c]

\* `if let Ok(ev) = read() { if let CrossTermEvent::Key(k) = ev {..} }`:
\* the keys to send for one read result
KeyFilterAnyOk(res) == IF res.ok THEN <<res.key>> ELSE <<>>
KeyFilter(res) == IF res.ok /\ res.kind = "Key" THEN <<res.key>> ELSE <<>>

\* Duration::from_millis(1000 / fps), for fps > 0 (u64 division)
SleepMsSwapped(f) == f \div 1000
SleepMs(f) == 1000 \div f

(***************************************************************************)
(* Init: nothing has been constructed.                                      *)
(***************************************************************************)
InitEvents ==
    /\ evPc = "idle"
    /\ fps = 0
    /\ chan = <<>>
    /\ rxAlive = FALSE
    /\ inputPc = "none"
    /\ pendingKey = "-"
    /\ framePc = "none"
    /\ lastNext = [kind |-> "-", ev |-> Tick]
    /\ lastSleepMs = -1
    /\ sent = <<>>
    /\ received = <<>>
    /\ readLog = <<>>
    /\ keySends = <<>>
    /\ tickSends = 0
    /\ frameLog = <<>>

InitRender ==
    /\ camera = [made |-> FALSE, x |-> 0, y |-> 0, w |-> 0, h |-> 0]
    /\ view = [made |-> FALSE, x |-> 0, y |-> 0, w |-> 0, h |-> 0,
               pixels |-> <<>>]
    /\ renderer = [made |-> FALSE, pixels |-> <<>>]
    /\ calls = <<>>
    /\ callLog = <<>>
    /\ frames = <<>>
    /\ renderCalls = 0

InitStdout ==
    /\ stPc = "none"
    /\ stPixels = <<>>
    /\ termRaw = FALSE
    /\ termOut = <<>>
    /\ rawAcquired = FALSE
    /\ disableCalls = 0
    /\ stRenders = 0
    /\ stCall = [batch |-> <<>>, mark |-> 0, failed |-> "none", flushes |-> 0]

Init == InitEvents /\ InitRender /\ InitStdout

(***************************************************************************)
(* events(fps): creates the channel, spawns both threads, returns Events.   *)
(***************************************************************************)
EventsCall(f) ==
    /\ evPc = "idle"
    /\ evPc' = "running"
    /\ fps' = f
    /\ chan' = <<>>
    /\ rxAlive' = TRUE
    /\ inputPc' = "read"
    /\ framePc' = "send"
    /\ UNCHANGED <<pendingKey, lastNext, lastSleepMs, sent, received,
                   readLog, keySends, tickSends, frameLog>>
    /\ UNCHANGED <<rnVars, stVars>>

\* input thread: read() returns res; a key event goes on to the send
InputReadUnwrap(res) ==
    /\ inputPc = "read"
    /\ Len(readLog) < MaxReads
    /\ readLog' = Append(readLog, res)
    /\ IF ~res.ok
       THEN /\ inputPc' = "panicked"
            /\ pendingKey' = "-"
       ELSE IF KeyFilter(res) # <<>>
       THEN /\ inputPc' = "send"
            /\ pendingKey' = KeyFilter(res)[1]
       ELSE /\ inputPc' = "read"
            /\ pendingKey' = "-"
    /\ UNCHANGED <<evPc, fps, chan, rxAlive, framePc, lastNext, lastSleepMs,
                   sent, received, keySends, tickSends, frameLog>>
    /\ UNCHANGED <<rnVars, stVars>>
InputRead(res) ==
    /\ inputPc = "read"
    /\ Len(readLog) < MaxReads
    /\ readLog' = Append(readLog, res)
    /\ IF KeyFilter(res) # <<>>
       THEN /\ inputPc' = "send"
            /\ pendingKey' = KeyFilter(res)[1]
       ELSE /\ inputPc' = "read"
            /\ pendingKey' = "-"
    /\ UNCHANGED <<evPc, fps, chan, rxAlive, framePc, lastNext, lastSleepMs,
                   sent, received, keySends, tickSends, frameLog>>
    /\ UNCHANGED <<rnVars, stVars>>

\* input thread: let _ = tx_clone.send(Event::Key(k))
InputSend ==
    /\ inputPc = "send"
    /\ LET r == ChanSend(chan, rxAlive, Key(pendingKey)) IN
        /\ chan' = r.chan
        /\ sent' = IF r.ok THEN Append(sent, Key(pendingKey)) ELSE sent
    /\ keySends' = Append(keySends, pendingKey)
    /\ inputPc' = "read"
    /\ pendingKey' = "-"
    /\ UNCHANGED <<evPc, fps, rxAlive, framePc, lastNext, lastSleepMs,
                   received, readLog, tickSends, frameLog>>
    /\ UNCHANGED <<rnVars, stVars>>

\* frame thread: let _ = tx.send(Event::Tick)
FrameSendUnwrap ==
    /\ framePc = "send"
    /\ tickSends < MaxTicks
    /\ LET r == ChanSend(chan, rxAlive, Tick) IN
        /\ chan' = r.chan
        /\ sent' = IF r.ok THEN Append(sent, Tick) ELSE sent
        /\ framePc' = IF r.ok THEN "sleep" ELSE "panicked"
    /\ tickSends' = tickSends + 1
    /\ frameLog' = Append(frameLog, [op |-> "send", ms |-> 0])
    /\ UNCHANGED <<evPc, fps, rxAlive, inputPc, pendingKey, lastNext,
                   lastSleepMs, received, readLog, keySends>>
    /\ UNCHANGED <<rnVars, stVars>>
FrameSendRendezvous ==
    /\ framePc = "send"
    /\ tickSends < MaxTicks
    /\ ~rxAlive \/ chan = <<>>
    /\ LET r == ChanSend(chan, rxAlive, Tick) IN
        /\ chan' = r.chan
        /\ sent' = IF r.ok THEN Append(sent, Tick) ELSE sent
    /\ tickSends' = tickSends + 1
    /\ frameLog' = Append(frameLog, [op |-> "send", ms |-> 0])
    /\ framePc' = "sleep"
    /\ UNCHANGED <<evPc, fps, rxAlive, inputPc, pendingKey, lastNext,
                   lastSleepMs, received, readLog, keySends>>
    /\ UNCHANGED <<rnVars, stVars>>
FrameSend ==
    /\ framePc = "send"
    /\ tickSends < MaxTicks
    /\ LET r == ChanSend(chan, rxAlive, Tick) IN
        /\ chan' = r.chan
        /\ sent' = IF r.ok THEN Append(sent, Tick) ELSE sent
    /\ tickSends' = tickSends + 1
    /\ frameLog' = Append(frameLog, [op |-> "send", ms |-> 0])
    /\ framePc' = "sleep"
    /\ UNCHANGED <<evPc, fps, rxAlive, inputPc, pendingKey, lastNext,
                   lastSleepMs, received, readLog, keySends>>
    /\ UNCHANGED <<rnVars, stVars>>

\* frame thread: thread::sleep(Duration::from_millis(1000 / fps)); the
\* division panics for fps = 0, which ends the thread and drops tx
FrameSleepOnce ==
    /\ framePc = "sleep"
    /\ IF fps = 0
       THEN /\ framePc' = "panicked"
            /\ UNCHANGED <<lastSleepMs, frameLog>>
       ELSE /\ framePc' = "returned"
            /\ lastSleepMs' = SleepMs(fps)
            /\ frameLog' = Append(frameLog, [op |-> "sleep", ms |-> SleepMs(fps)])
    /\ UNCHANGED <<evPc, fps, chan, rxAlive, inputPc, pendingKey, lastNext,
                   sent, received, readLog, keySends, tickSends>>
    /\ UNCHANGED <<rnVars, stVars>>
FrameSleepZeroOk ==
    /\ framePc = "sleep"
    /\ framePc' = "send"
    /\ lastSleepMs' = IF fps = 0 THEN 0 ELSE SleepMs(fps)
    /\ frameLog' = Append(frameLog, [op |-> "sleep", ms |-> lastSleepMs'])
    /\ UNCHANGED <<evPc, fps, chan, rxAlive, inputPc, pendingKey, lastNext,
                   sent, received, readLog, keySends, tickSends>>
    /\ UNCHANGED <<rnVars, stVars>>
FrameSleep ==
    /\ framePc = "sleep"
    /\ IF fps = 0
       THEN /\ framePc' = "panicked"
            /\ UNCHANGED <<lastSleepMs, frameLog>>
       ELSE /\ framePc' = "send"
            /\ lastSleepMs' = SleepMs(fps)
            /\ frameLog' = Append(frameLog, [op |-> "sleep", ms |-> SleepMs(fps)])
    /\ UNCHANGED <<evPc, fps, chan, rxAlive, inputPc, pendingKey, lastNext,
                   sent, received, readLog, keySends, tickSends>>
    /\ UNCHANGED <<rnVars, stVars>>

\* consumer: Events::next() returns (a blocked call is no step)
EventsNext ==
    /\ evPc = "running"
    /\ rxAlive
    /\ LET r == Recv(chan, Senders) IN
        /\ r.kind # "Block"
        /\ chan' = r.chan
        /\ IF r.kind = "Some"
           THEN /\ lastNext' = [kind |-> "Some", ev |-> r.ev]
                /\ received' = Append(received, r.ev)
           ELSE /\ lastNext' = [kind |-> "None", ev |-> Tick]
                /\ UNCHANGED received
    /\ UNCHANGED <<evPc, fps, rxAlive, inputPc, pendingKey, framePc,
                   lastSleepMs, sent, readLog, keySends, tickSends, frameLog>>
    /\ UNCHANGED <<rnVars, stVars>>

\* consumer: the Events value is dropped; the queue goes with the receiver
EventsDrop ==
    /\ evPc = "running"
    /\ rxAlive
    /\ rxAlive' = FALSE
    /\ chan' = <<>>
    /\ UNCHANGED <<evPc, fps, inputPc, pendingKey, framePc, lastNext,
                   lastSleepMs, sent, received, readLog, keySends, tickSends, frameLog>>
    /\ UNCHANGED <<rnVars, stVars>>

NextEvents ==
    \/ \E f \in FpsValues : EventsCall(f)
    \/ \E res \in ReadResults : InputRead(res)
    \/ InputSend
    \/ FrameSend
    \/ FrameSleep
    \/ EventsNext
    \/ EventsDrop

SpecEvents == Init /\ [][NextEvents]_vars

\* the scheduler runs the frame thread whenever it can take a step, and the
\* consumer keeps calling next(); nothing is assumed of the terminal input
FairSpecEvents ==
    /\ SpecEvents
    /\ WF_vars(FrameSend)
    /\ WF_vars(FrameSleep)
    /\ WF_vars(EventsNext)

(***************************************************************************)
(* Camera and Viewport.  Their code is not among the sources at hand (the   *)
(* test of render.rs calls it); these definitions follow the specification. *)
(***************************************************************************)
\* Camera::new(pos, size), Viewport::new(pos, size)
CameraMake(a) == [made |-> TRUE, x |-> a.x, y |-> a.y, w |-> a.w, h |-> a.h]
ViewportMake(a) ==
    [made |-> TRUE, x |-> a.x, y |-> a.y, w |-> a.w, h |-> a.h,
     pixels |-> <<>>]

\* BoundingBox::min_x, min_y, and the far edge on each axis
BBoxMinX(b) == b.x
BBoxMinY(b) == b.y
BBoxMaxX(b) == b.x + b.w
BBoxMaxY(b) == b.y + b.h

\* Camera::to_screen: the offset of a world position from the box's minimum
ToScreenClamped(cam, p) ==
    [x |-> IF p.x < BBoxMinX(cam) THEN 0 ELSE p.x - BBoxMinX(cam),
     y |-> IF p.y < BBoxMinY(cam) THEN 0 ELSE p.y - BBoxMinY(cam)]
ToScreen(cam, p) == [x |-> p.x - BBoxMinX(cam), y |-> p.y - BBoxMinY(cam)]

\* Viewport::draw_pixel((glyph, offset)): appends the pixel at the
\* viewport's origin plus the offset; nothing is clipped
ViewportDrawPixel(v, g, off) ==
    [v EXCEPT !.pixels =
        Append(@, [glyph |-> g,
                   pos |-> [x |-> BBoxMinX(v) + off.x,
                            y |-> BBoxMinY(v) + off.y]])]

\* Viewport::pixels(): returns the pending pixels and clears them
ViewportPixelsPeek(v) == [out |-> v.pixels, view |-> v]
ViewportPixels(v) == [out |-> v.pixels, view |-> [v EXCEPT !.pixels = <<>>]]

(***************************************************************************)
(* Renderer and DummyTarget (render.rs).                                    *)
(***************************************************************************)
\* DummyTarget::render: self.pixels = pixels
DummyTargetRenderExtend(t, pixels) == [t EXCEPT !.pixels = @ \o pixels]
DummyTargetRender(t, pixels) == [t EXCEPT !.pixels = pixels]

\* a pixel sequence without the pixels a later one overdraws
Dedup(pixels) ==
    LET keep == {i \in 1..Len(pixels) :
                    \A j \in (i + 1)..Len(pixels) : pixels[j].pos # pixels[i].pos}
        F[n \in 0..Len(pixels)] ==
            IF n = 0 THEN <<>>
            ELSE IF n \in keep THEN Append(F[n - 1], pixels[n]) ELSE F[n - 1]
    IN F[Len(pixels)]

\* Renderer::render: self.target.render(viewport.pixels()); gives the
\* renderer and the viewport after the call and what the target was given
RenderCallDedup(r, v) ==
    LET d == ViewportPixels(v) IN
    [renderer |-> DummyTargetRender(r, Dedup(d.out)), view |-> d.view,
     given |-> <<Dedup(d.out)>>]
RenderCall(r, v) ==
    LET d == ViewportPixels(v) IN
    [renderer |-> DummyTargetRender(r, d.out), view |-> d.view,
     given |-> <<d.out>>]

\* what a terminal shows after the pixels are painted in order (for each
\* pixel: MoveTo its position, Print its glyph), as position -> glyph
RECURSIVE Paint(_, _)
Paint(screen, pixels) ==
    IF pixels = <<>> THEN screen
    ELSE LET px == Head(pixels) IN
         Paint([q \in (DOMAIN screen) \cup {px.pos} |->
                    IF q = px.pos THEN px.glyph ELSE screen[q]],
               Tail(pixels))

\* draw_pixel calls so far (history)
RECURSIVE SumLen(_)
SumLen(ss) == IF ss = <<>> THEN 0 ELSE Len(Head(ss)) + SumLen(Tail(ss))
TotalDraws == Len(calls) + SumLen(callLog)

CameraNew(a) ==
    /\ ~camera.made
    /\ camera' = CameraMake(a)
    /\ UNCHANGED <<view, renderer, calls, callLog, frames, renderCalls>>
    /\ UNCHANGED <<evVars, stVars>>

ViewportNew(a) ==
    /\ ~view.made
    /\ view' = ViewportMake(a)
    /\ UNCHANGED <<camera, renderer, calls, callLog, frames, renderCalls>>
    /\ UNCHANGED <<evVars, stVars>>

\* Renderer::new(DummyTarget { pixels: Vec::new() })
RendererNew ==
    /\ ~renderer.made
    /\ renderer' = [made |-> TRUE, pixels |-> <<>>]
    /\ UNCHANGED <<camera, view, calls, callLog, frames, renderCalls>>
    /\ UNCHANGED <<evVars, stVars>>

\* view.draw_pixel((g, cam.to_screen(WorldPos::new(wx, wy))))
DrawPixel(g, d) ==
    /\ camera.made /\ view.made
    /\ TotalDraws < MaxDraws
    /\ LET p == [x |-> BBoxMinX(camera) + d[1], y |-> BBoxMinY(camera) + d[2]]
           off == ToScreen(camera, p)
       IN /\ view' = ViewportDrawPixel(view, g, off)
          /\ calls' = Append(calls, [glyph |-> g, w |-> p, off |-> off])
    /\ UNCHANGED <<camera, renderer, callLog, frames, renderCalls>>
    /\ UNCHANGED <<evVars, stVars>>

\* renderer.render(&mut view)
RendererRender ==
    /\ renderer.made /\ view.made
    /\ renderCalls < MaxRenders
    /\ LET c == RenderCall(renderer, view) IN
        /\ renderer' = c.renderer
        /\ view' = c.view
        /\ frames' = frames \o c.given
    /\ callLog' = Append(callLog, calls)
    /\ calls' = <<>>
    /\ renderCalls' = renderCalls + 1
    /\ UNCHANGED camera
    /\ UNCHANGED <<evVars, stVars>>

NextRender ==
    \/ \E a \in CameraArgs : CameraNew(a)
    \/ \E a \in ViewportArgs : ViewportNew(a)
    \/ RendererNew
    \/ \E g \in Glyphs, d \in DrawOffsets : DrawPixel(g, d)
    \/ RendererRender

SpecRender == Init /\ [][NextRender]_vars

(***************************************************************************)
(* StdoutTarget (render.rs): construction through raw_mode(), render, drop. *)
(* Every terminal command either succeeds or fails.                         *)
(***************************************************************************)
\* the steps of raw_mode() after enable_raw_mode, and the command of each
SetupNext(pc) ==
    CASE pc = "mouse" -> "hide"
      [] pc = "hide" -> "clear"
      [] pc = "clear" -> "live"
SetupCommand(pc) ==
    CASE pc = "mouse" -> "DisableMouseCapture"
      [] pc = "hide" -> "Hide"
      [] pc = "clear" -> "ClearAll"

\* what a `?` in raw_mode() does with a failed step: raw_mode and with it
\* StdoutTarget::new return the error; no StdoutTarget exists, none is dropped
SetupFailed == [pc |-> "failed", disable |-> FALSE]

\* StdoutTarget::new() is called
StdoutNew ==
    /\ stPc = "none"
    /\ stPc' = "enable"
    /\ UNCHANGED <<stPixels, termRaw, termOut, rawAcquired, disableCalls,
                   stRenders, stCall>>
    /\ UNCHANGED <<evVars, rnVars>>

\* raw_mode: enable_raw_mode()?
RawModeEnable(ok) ==
    /\ stPc = "enable"
    /\ IF ok
       THEN /\ termRaw' = TRUE
            /\ rawAcquired' = TRUE
            /\ stPc' = "mouse"
       ELSE /\ stPc' = "failed"
            /\ UNCHANGED <<termRaw, rawAcquired>>
    /\ UNCHANGED <<stPixels, termOut, disableCalls, stRenders, stCall>>
    /\ UNCHANGED <<evVars, rnVars>>

\* raw_mode: execute!(stdout, DisableMouseCapture)?, stdout.execute(Hide)?,
\* stdout.execute(Clear(All))?; after the last, Ok(Self { stdout })
RawModeSetup(ok) ==
    /\ stPc \in {"mouse", "hide", "clear"}
    /\ IF ok
       THEN /\ termOut' = Append(termOut, [cmd |-> SetupCommand(stPc)])
            /\ stPc' = SetupNext(stPc)
            /\ UNCHANGED <<termRaw, disableCalls>>
       ELSE /\ stPc' = SetupFailed.pc
            /\ UNCHANGED termOut
            /\ IF SetupFailed.disable
               THEN /\ termRaw' = FALSE
                    /\ disableCalls' = disableCalls + 1
               ELSE UNCHANGED <<termRaw, disableCalls>>
    /\ UNCHANGED <<stPixels, rawAcquired, stRenders, stCall>>
    /\ UNCHANGED <<evVars, rnVars>>

\* StdoutTarget::render(pixels) is called
StdoutRenderBegin(pixels) ==
    /\ stPc = "live"
    /\ stRenders < MaxStdoutRenders
    /\ stRenders' = stRenders + 1
    /\ stPixels' = pixels
    /\ stCall' = [batch |-> pixels, mark |-> Len(termOut), failed |-> "none",
                  flushes |-> 0]
    /\ stPc' = IF pixels = <<>> THEN "flush" ELSE "move"
    /\ UNCHANGED <<termRaw, termOut, rawAcquired, disableCalls>>
    /\ UNCHANGED <<evVars, rnVars>>

\* self.stdout.queue(MoveTo(pixel.pos.x, pixel.pos.y)).expect(..)
StdoutMoveToSwapped(ok) ==
    /\ stPc = "move"
    /\ IF ok
       THEN /\ termOut' = Append(termOut, [cmd |-> "MoveTo",
                                           x |-> Head(stPixels).pos.y,
                                           y |-> Head(stPixels).pos.x])
            /\ stPc' = "print"
            /\ UNCHANGED stCall
       ELSE /\ stPc' = "panicking"
            /\ stCall' = [stCall EXCEPT !.failed = "move"]
            /\ UNCHANGED termOut
    /\ UNCHANGED <<stPixels, termRaw, rawAcquired, disableCalls, stRenders>>
    /\ UNCHANGED <<evVars, rnVars>>
StdoutMoveTo(ok) ==
    /\ stPc = "move"
    /\ IF ok
       THEN /\ termOut' = Append(termOut, [cmd |-> "MoveTo",
                                           x |-> Head(stPixels).pos.x,
                                           y |-> Head(stPixels).pos.y])
            /\ stPc' = "print"
            /\ UNCHANGED stCall
       ELSE /\ stPc' = "panicking"
            /\ stCall' = [stCall EXCEPT !.failed = "move"]
            /\ UNCHANGED termOut
    /\ UNCHANGED <<stPixels, termRaw, rawAcquired, disableCalls, stRenders>>
    /\ UNCHANGED <<evVars, rnVars>>

\* self.stdout.queue(Print(pixel.glyph.to_string())).expect(..)
StdoutPrintIgnore(ok) ==
    /\ stPc = "print"
    /\ termOut' = IF ok THEN Append(termOut, [cmd |-> "Print",
                                              glyph |-> Head(stPixels).glyph])
                  ELSE termOut
    /\ stCall' = IF ok THEN stCall ELSE [stCall EXCEPT !.failed = "print"]
    /\ stPixels' = Tail(stPixels)
    /\ stPc' = IF Tail(stPixels) = <<>> THEN "flush" ELSE "move"
    /\ UNCHANGED <<termRaw, rawAcquired, disableCalls, stRenders>>
    /\ UNCHANGED <<evVars, rnVars>>
StdoutPrint(ok) ==
    /\ stPc = "print"
    /\ IF ok
       THEN /\ termOut' = Append(termOut, [cmd |-> "Print",
                                           glyph |-> Head(stPixels).glyph])
            /\ stPixels' = Tail(stPixels)
            /\ stPc' = IF Tail(stPixels) = <<>> THEN "flush" ELSE "move"
            /\ UNCHANGED stCall
       ELSE /\ stPc' = "panicking"
            /\ stCall' = [stCall EXCEPT !.failed = "print"]
            /\ UNCHANGED <<termOut, stPixels>>
    /\ UNCHANGED <<termRaw, rawAcquired, disableCalls, stRenders>>
    /\ UNCHANGED <<evVars, rnVars>>

\* let _ = self.stdout.flush(): a failure is ignored, render returns
StdoutFlush(ok) ==
    /\ stPc = "flush"
    /\ termOut' = IF ok THEN Append(termOut, [cmd |-> "Flush"]) ELSE termOut
    /\ stCall' = [stCall EXCEPT !.flushes = @ + 1,
                                !.failed = IF ok THEN @ ELSE "flush"]
    /\ stPc' = "live"
    /\ UNCHANGED <<stPixels, termRaw, rawAcquired, disableCalls, stRenders>>
    /\ UNCHANGED <<evVars, rnVars>>

\* Drop for StdoutTarget, when its owner's scope ends or a panic unwinds
\* through it: let _ = disable_raw_mode()
StdoutDrop(ok) ==
    /\ stPc \in {"live", "panicking"}
    /\ stPc' = "dropped"
    /\ disableCalls' = disableCalls + 1
    /\ termRaw' = IF ok THEN FALSE ELSE termRaw
    /\ UNCHANGED <<stPixels, termOut, rawAcquired, stRenders, stCall>>
    /\ UNCHANGED <<evVars, rnVars>>

NextStdout ==
    \/ StdoutNew
    \/ \E ok \in BOOLEAN : RawModeEnable(ok)
    \/ \E ok \in BOOLEAN : RawModeSetup(ok)
    \/ \E pixels \in Batches(MaxBatch) : StdoutRenderBegin(pixels)
    \/ \E ok \in BOOLEAN : StdoutMoveTo(ok)
    \/ \E ok \in BOOLEAN : StdoutPrint(ok)
    \/ \E ok \in BOOLEAN : StdoutFlush(ok)
    \/ \E ok \in BOOLEAN : StdoutDrop(ok)

SpecStdout == Init /\ [][NextStdout]_vars

(***************************************************************************)
(* Properties of the event multiplexer.                                     *)
(***************************************************************************)
IsPrefix(a, b) == Len(a) <= Len(b) /\ a = SubSeq(b, 1, Len(a))
IsTick(e) == e.type = "Tick"
IsKey(e) == e.type = "Key"
\* the keys of the Key events of a sequence of events, in order
KeysOf(es) ==
    LET ks == SelectSeq(es, IsKey) IN [i \in 1..Len(ks) |-> ks[i].key]
\* the keyboard events read() has returned, in order
IsKeyRead(res) == res.ok /\ res.kind = "Key"
KeysRead ==
    LET rs == SelectSeq(readLog, IsKeyRead) IN [i \in 1..Len(rs) |-> rs[i].key]

\* C1: with a positive fps both producers own a sender in every state, no
\* next() has returned None, and a next() called now returns Some or blocks.
C1_NextNeverNone ==
    (evPc = "running" /\ fps > 0) =>
        /\ Senders = {"input", "frame"}
        /\ lastNext.kind # "None"
        /\ rxAlive => Recv(chan, Senders).kind \in {"Some", "Block"}

\* a stream with a positive fps whose consumer has received every Tick and
\* finds the queue empty: the next call blocks
C1_Witness ==
    /\ evPc = "running" /\ fps > 0 /\ rxAlive
    /\ lastNext.kind = "Some"
    /\ Len(received) = MaxTicks
    /\ Recv(chan, Senders).kind = "Block"

\* C2: the events received are a prefix of the events sent, in the order of
\* the sends, whatever the interleaving of the two producers.
C2_ArrivalOrder == IsPrefix(received, sent)

\* a Key sent between two Ticks was received between them
C2_Witness == received = <<Tick, Key("a"), Tick>>

\* C3: while the consumer exists every event sent is either queued or has
\* been returned once: sent = received followed by the queue; nothing is
\* dropped, duplicated or merged, and a queued event can be pulled.
C3_NoDropNoDup ==
    (evPc = "running" /\ rxAlive) =>
        /\ sent = received \o chan
        /\ Len(chan) = Len(sent) - Len(received)
        /\ chan # <<>> => Recv(chan, Senders).kind = "Some"

\* a consumer that never pulled: every Tick sent is queued, one by one
C3_Witness ==
    /\ rxAlive /\ received = <<>>
    /\ tickSends = MaxTicks
    /\ Len(SelectSeq(chan, IsTick)) = MaxTicks
    /\ Len(SelectSeq(chan, IsKey)) >= 1

\* C4: the keys the input thread sends (and the one it is about to send)
\* are exactly the keyboard events read, in order; the Key items sent and
\* received are a prefix of them.
C4_KeyFilter ==
    /\ keySends \o (IF inputPc = "send" THEN <<pendingKey>> ELSE <<>>) = KeysRead
    /\ IsPrefix(KeysOf(sent), KeysRead)
    /\ IsPrefix(KeysOf(received), KeysOf(sent))

\* a mouse event and a keyboard event were read; only the key was received
C4_Witness ==
    /\ \E i \in 1..Len(readLog) : readLog[i].kind = "Mouse"
    /\ \E i \in 1..Len(readLog) : readLog[i].kind = "Key"
    /\ Len(readLog) = MaxReads
    /\ inputPc = "read"
    /\ KeysOf(received) = KeysRead
    /\ Len(KeysOf(received)) = 1

\* C11: a failed read() sends nothing and ends nothing: the input thread
\* is alive in every state, after a failed read it is back at read() with no
\* key to send, no next() has returned None, and the keys it sends are
\* those of the successful keyboard reads, failed reads between them or not.
C11_ReadFailureSkipped ==
    evPc = "running" =>
        /\ inputPc \in {"read", "send"}
        /\ (readLog # <<>> /\ ~readLog[Len(readLog)].ok) =>
                (inputPc = "read" /\ pendingKey = "-")
        /\ lastNext.kind # "None"
        /\ Len(keySends) + (IF inputPc = "send" THEN 1 ELSE 0)
              = Len(readLog) - Cardinality({i \in 1..Len(readLog) :
                                              readLog[i].kind # "Key"})
        /\ Len(sent) <= tickSends + Len(KeysRead)

\* a keyboard event read after a failed read was delivered as a Key item
C11_Witness ==
    /\ Len(readLog) = 2
    /\ readLog[1].kind = "Err"
    /\ readLog[2] = [ok |-> TRUE, kind |-> "Key", key |-> "a"]
    /\ KeysOf(received) = <<"a">>
    /\ inputPc = "read"

\* C12: once events(fps) has been called with fps > 0 both threads are in
\* their loops in every state, whether or not the Events value still exists
\* and however many sends have failed.
C12_NoCancellation ==
    (evPc = "running" /\ fps > 0) =>
        /\ inputPc \in {"read", "send"}
        /\ framePc \in {"send", "sleep"}
        /\ Senders = {"input", "frame"}
        /\ ~rxAlive => chan = <<>>

\* the consumer is gone; since then two Tick sends and a Key send have
\* failed, and both threads went on (a later sleep, a later read)
C12_Witness ==
    /\ evPc = "running" /\ fps > 0 /\ ~rxAlive
    /\ tickSends - Len(SelectSeq(sent, IsTick)) >= 2
    /\ Len(keySends) - Len(KeysOf(sent)) >= 1
    /\ framePc = "send"
    /\ inputPc = "read" /\ Len(readLog) = MaxReads
    /\ ~readLog[Len(readLog)].ok

TicksReceived == Len(SelectSeq(received, IsTick))

\* C16: the frame thread's steps are send, sleep, send, sleep, ...: it
\* starts with a send, one sleep lies between two sends, and each sleep
\* lasts floor(1000 / fps) ms (50 ms for fps = 20, 0 ms for fps > 1000).
C16_TickCycle ==
    evPc = "running" =>
        /\ \A i \in 1..Len(frameLog) :
            /\ i % 2 = 1 => frameLog[i].op = "send"
            /\ i % 2 = 0 =>
                /\ frameLog[i].op = "sleep"
                /\ frameLog[i].ms * fps <= 1000
                /\ 1000 < (frameLog[i].ms + 1) * fps
                /\ fps = 20 => frameLog[i].ms = 50
                /\ fps > 1000 => frameLog[i].ms = 0
        /\ tickSends = (Len(frameLog) + 1) \div 2
        /\ framePc = "sleep" => Len(frameLog) % 2 = 1
        /\ framePc = "send" => Len(frameLog) % 2 = 0

\* with fps = 1001 every Tick the model allows was sent, 0 ms sleeps between
C16_Witness ==
    /\ fps = 1001
    /\ tickSends = MaxTicks
    /\ Len(frameLog) = 2 * MaxTicks - 1
    /\ frameLog[1] = [op |-> "send", ms |-> 0]
    /\ frameLog[2] = [op |-> "sleep", ms |-> 0]
    /\ frameLog[3] = [op |-> "send", ms |-> 0]

\* a step of either producer can be taken whatever the other producer and
\* the consumer are doing: no send, sleep or read waits for them
NoProducerWaits ==
    evPc = "running" =>
        /\ (framePc = "send" /\ tickSends < MaxTicks) => ENABLED FrameSend
        /\ framePc = "sleep" => ENABLED FrameSleep
        /\ inputPc = "send" => ENABLED InputSend
        /\ (inputPc = "read" /\ Len(readLog) < MaxReads) =>
              \A res \in ReadResults : ENABLED InputRead(res)

\* C17: neither producer ever waits for the other or for the consumer, and
\* as long as read() has not returned (no input arrives) the Ticks go on
\* being sent and received.
C17_ProducersIndependent ==
    /\ []NoProducerWaits
    /\ (evPc = "running" /\ fps > 0)
          ~> \/ readLog # <<>>
             \/ tickSends = MaxTicks /\ (TicksReceived = MaxTicks \/ ~rxAlive)

\* while the frame thread sleeps after its first Tick, a key was read,
\* sent and received, before the second Tick was sent
C17_Witness ==
    /\ fps > 0 /\ framePc = "sleep" /\ tickSends = 1
    /\ received = <<Tick, Key("a")>>
    /\ chan = <<>>

\* C18: events(0) returns a stream; the frame thread sends one Tick and
\* panics on 1000 / 0 instead of sleeping, the input thread keeps its
\* sender: at most one Tick is ever sent or received, everything else
\* received is a Key, and next() never returns None.
C18_FpsZero ==
    (evPc = "running" /\ fps = 0) =>
        /\ tickSends <= 1
        /\ framePc \in {"send", "sleep", "panicked"}
        /\ framePc = "send" <=> tickSends = 0
        /\ \A i \in 1..Len(frameLog) : frameLog[i].op = "send"
        /\ Len(SelectSeq(sent, IsTick)) <= 1
        /\ TicksReceived <= 1
        /\ "input" \in Senders
        /\ framePc = "panicked" => Senders = {"input"}
        /\ lastNext.kind # "None"
        /\ rxAlive => Recv(chan, Senders).kind \in {"Some", "Block"}

\* fps = 0: the frame thread is gone, its one Tick and then a Key were
\* received, and the next call blocks on the input thread's sender
C18_Witness ==
    /\ evPc = "running" /\ fps = 0 /\ rxAlive
    /\ framePc = "panicked"
    /\ received = <<Tick, Key("a")>>
    /\ Recv(chan, Senders).kind = "Block"

C9_RawModeRestored ==
    (rawAcquired /\ stPc \in {"failed", "dropped"}) => disableCalls > 0

\* what a render call given the pixels b is to emit before its flush
Protocol(b) ==
    [i \in 1..(2 * Len(b)) |->
        IF i % 2 = 1
        THEN [cmd |-> "MoveTo", x |-> b[(i + 1) \div 2].pos.x,
              y |-> b[(i + 1) \div 2].pos.y]
        ELSE [cmd |-> "Print", glyph |-> b[i \div 2].glyph]]
\* what the current or last render call has written
Emitted == SubSeq(termOut, stCall.mark + 1, Len(termOut))

\* C14: a render call writes MoveTo(p1), Print(g1), ..., MoveTo(pn),
\* Print(gn) in this order, each Print right after the MoveTo of its own
\* pixel, and flushes exactly once, after the last pixel; given no pixels it
\* only flushes.  (A flush that fails writes nothing.)
C14_OutputProtocol ==
    stRenders > 0 =>
        /\ IsPrefix(Emitted, Protocol(stCall.batch) \o <<[cmd |-> "Flush"]>>)
        /\ stPc = "move" => (stCall.flushes = 0 /\ Len(Emitted) % 2 = 0
                                /\ Len(Emitted) < 2 * Len(stCall.batch))
        /\ stPc = "print" => (stCall.flushes = 0 /\ Len(Emitted) % 2 = 1)
        /\ stPc = "flush" => (stCall.flushes = 0
                                /\ Emitted = Protocol(stCall.batch))
        /\ stCall.failed \in {"move", "print"} => stCall.flushes = 0
        /\ (stPc \in {"live", "dropped"} /\ stCall.failed \notin {"move", "print"}) =>
              /\ stCall.flushes = 1
              /\ Emitted = Protocol(stCall.batch)
                    \o (IF stCall.failed = "flush" THEN <<>>
                        ELSE <<[cmd |-> "Flush"]>>)

\* a completed render of 'A' at (2, 2) and 'B' at (3, 4)
C14_Witness ==
    /\ stPc = "live" /\ stRenders = 1 /\ stCall.failed = "none"
    /\ Emitted = <<[cmd |-> "MoveTo", x |-> 2, y |-> 2],
                   [cmd |-> "Print", glyph |-> "A"],
                   [cmd |-> "MoveTo", x |-> 3, y |-> 4],
                   [cmd |-> "Print", glyph |-> "B"],
                   [cmd |-> "Flush"]>>

\* C15 as stated: whichever step of a render call fails, a cursor move, a
\* glyph write or the final flush, the call ends in a panic.
C15_AnyFailureAborts ==
    stCall.failed # "none" => stPc \in {"panicking", "dropped"}

\* C15 as amended: a failed cursor move or glyph write ends the call in a
\* panic, with nothing written after the failing step and no flush; a failed
\* flush is ignored: the call has written every pixel and returns normally.
C15_WriteFailureAborts ==
    /\ stCall.failed \in {"move", "print"} =>
        /\ stPc \in {"panicking", "dropped"}
        /\ stPixels # <<>>
        /\ stCall.flushes = 0
        /\ Emitted =
              SubSeq(Protocol(stCall.batch), 1,
                     2 * (Len(stCall.batch) - Len(stPixels))
                       + (IF stCall.failed = "print" THEN 1 ELSE 0))
    /\ stCall.failed = "flush" =>
        /\ stPc \in {"live", "dropped"}
        /\ stCall.flushes = 1
        /\ Emitted = Protocol(stCall.batch)

\* the write of the second glyph failed: the call panicked after the first
\* pixel and the second MoveTo, and the target was dropped by the unwinding
C15_Witness ==
    /\ stCall.failed = "print"
    /\ Len(stCall.batch) = 2 /\ Len(stPixels) = 1
    /\ Len(Emitted) = 3
    /\ stPc = "dropped" /\ disableCalls = 1

(***************************************************************************)
(* Properties of the rendering.                                             *)
(***************************************************************************)
\* the calls drained by the last Renderer::render
LastCalls == callLog[Len(callLog)]

\* C5: the pixels the target holds after a render are, for each glyph g
\* drawn at world position p in that frame, (g, origin + p - camera minimum).
C5_Projection ==
    renderCalls > 0 =>
        /\ Len(renderer.pixels) = Len(LastCalls)
        /\ \A j \in 1..Len(LastCalls) :
             renderer.pixels[j] =
                [glyph |-> LastCalls[j].glyph,
                 pos |-> [x |-> view.x + LastCalls[j].w.x - camera.x,
                          y |-> view.y + LastCalls[j].w.y - camera.y]]

\* the test render_pixels: 'A' at the minimum of the camera at (30, 30),
\* viewport at (2, 2), gives ('A', ScreenPos(2, 2))
C5_Witness ==
    /\ camera.made /\ camera.x = 30 /\ camera.y = 30
    /\ view.made /\ view.x = 2 /\ view.y = 2
    /\ renderCalls = 1
    /\ LastCalls = <<[glyph |-> "A", w |-> [x |-> 30, y |-> 30],
                      off |-> [x |-> 0, y |-> 0]]>>
    /\ renderer.pixels = <<[glyph |-> "A", pos |-> [x |-> 2, y |-> 2]]>>

\* C6: each Renderer::render calls the target once, with the pixels of the
\* draw_pixel calls since the last drain, one per call and in call order;
\* painted in order, each position shows the glyph last drawn there.
C6_ForwardsInOrder ==
    /\ Len(frames) = renderCalls
    /\ \A i \in 1..Len(frames) :
        /\ Len(frames[i]) = Len(callLog[i])
        /\ \A j \in 1..Len(callLog[i]) :
            /\ frames[i][j].glyph = callLog[i][j].glyph
            /\ frames[i][j].pos = [x |-> view.x + callLog[i][j].off.x,
                                   y |-> view.y + callLog[i][j].off.y]
            /\ LET last == CHOOSE k \in j..Len(callLog[i]) :
                                /\ callLog[i][k].off = callLog[i][j].off
                                /\ \A m \in (k + 1)..Len(callLog[i]) :
                                      callLog[i][m].off # callLog[i][j].off
               IN Paint(<<>>, frames[i])[frames[i][j].pos] = callLog[i][last].glyph
    /\ renderCalls > 0 => renderer.pixels = frames[Len(frames)]

\* a frame in which 'A' and then 'B' were drawn at the same position
C6_Witness ==
    /\ Len(frames) >= 1
    /\ Len(frames[1]) = 2
    /\ frames[1][1].pos = frames[1][2].pos
    /\ frames[1][1].glyph = "A" /\ frames[1][2].glyph = "B"
    /\ Paint(<<>>, frames[1])[frames[1][1].pos] = "B"

\* C7: the viewport holds only the pixels drawn since the last drain: a
\* second pixels() in a row is empty, a render with no draw since the last
\* one delivers nothing, and no pixel is delivered in two frames.
C7_FrameIsolation ==
    /\ Len(view.pixels) = Len(calls)
    /\ ViewportPixels(ViewportPixels(view).view).out = <<>>
    /\ \A i \in 1..Len(frames) : callLog[i] = <<>> => frames[i] = <<>>
    /\ SumLen(frames) + Len(view.pixels) = TotalDraws

\* a frame with pixels followed by a render with no draw in between
C7_Witness ==
    /\ Len(frames) = 2
    /\ frames[1] # <<>>
    /\ callLog[2] = <<>>
    /\ frames[2] = <<>>
    /\ renderer.pixels = <<>>

C8_WithinViewport ==
    \A i \in 1..Len(frames) : \A j \in 1..Len(frames[i]) :
        /\ BBoxMinX(view) <= frames[i][j].pos.x
        /\ frames[i][j].pos.x <= BBoxMaxX(view)
        /\ BBoxMinY(view) <= frames[i][j].pos.y
        /\ frames[i][j].pos.y <= BBoxMaxY(view)

(***************************************************************************)
(* The whole program.                                                       *)
(***************************************************************************)
Next == NextEvents \/ NextRender \/ NextStdout

Spec == Init /\ [][Next]_vars

====
